---- MODULE Spec2Model ----
(***************************************************************************)
(* Parallel Bayesian optimisation client for the multi-step mining model:  *)
(* the dispatch loop of mining_optimization_client.py, its worker tasks,   *)
(* the knowledge base (result cache) of knowledge_base_manager_mining.py   *)
(* and the multi-step loss of loss_function.py.                            *)
(*                                                                         *)
(* Conventions of the model                                                *)
(*   - a step key "step_n" is the natural number n, the key "error" is     *)
(*     ERROR_KEY;                                                          *)
(*   - a JSON object text is the sequence of its members <<key, payload>>  *)
(*     in textual order (duplicate keys are possible in a text);           *)
(*   - a decoded JSON object (a Python dict) is such a sequence with       *)
(*     pairwise distinct keys, in insertion order;                         *)
(*   - a loss is the exact rational num/den in tenths, or the penalty      *)
(*     1e10 (pen = TRUE).                                                  *)
(***************************************************************************)
EXTENDS Integers, Sequences, FiniteSets, TLC

----------------------------------------------------------------------------
(* Bounds of the model.                                                    *)

MaxCalls == 3          \* N_CALLS ranges over 1..MaxCalls
MaxInitial == 3        \* N_INITIAL_POINTS ranges over 1..MaxInitial
MaxServers == 2        \* len(SERVER_LIST) ranges over 1..MaxServers
MaxPoint == 2          \* parameter vectors are 0..MaxPoint

----------------------------------------------------------------------------
(* Parameter vectors and their canonical form.                             *)

\* The vectors the optimizer can propose.  A vector is abstracted to one
\* number whose last binary digit stands for the digits that the format
\* "{value:.6e}" does not keep.
Points == 0..MaxPoint

\* f"{value:.6e}" for the large parameters: the digits beyond the seventh
\* significant one are lost.
FormatSci(value) == value \div 2

\* params_dict_for_kb: the canonical parameters that are hashed, sent to the
\* server and stored.
params_dict_for_kb(params_list) == [key_emod000 |-> FormatSci(params_list)]

\* sha256 of the sorted JSON text of the canonical parameters: injective on
\* canonical parameters.
get_params_hash(params_dict) == <<"sha256", params_dict.key_emod000>>

\* All cache file names of the model.
Hashes == {get_params_hash(params_dict_for_kb(p)) : p \in Points}

\* float(params_dict.get(name)) of warm start: the value read back from the
\* canonical text (the lost digits are zero).
FloatOfCanon(params_dict) == params_dict.key_emod000 * 2

----------------------------------------------------------------------------
(* JSON texts and decoded objects.                                         *)

ERROR_KEY == -1

\* The Python value None for sim_steps_json_string.
None == [none |-> TRUE, valid |-> FALSE, object |-> FALSE, members |-> <<>>]

\* A JSON text with the given members.
JsonText(members) == [none |-> FALSE, valid |-> TRUE, object |-> TRUE, members |-> members]

\* A string that is not JSON, and a JSON text that is not an object (a
\* list, a number, null).
NotJson == [none |-> FALSE, valid |-> FALSE, object |-> FALSE, members |-> <<>>]

JsonNonObject == [none |-> FALSE, valid |-> TRUE, object |-> FALSE, members |-> <<>>]

\* dict[k] = v on an insertion-ordered dict.
RECURSIVE DictPut(_, _, _)
DictPut(dict, k, v) ==
    IF dict = <<>> THEN << <<k, v>> >>
    ELSE IF Head(dict)[1] = k THEN << <<k, v>> >> \o Tail(dict)
    ELSE << Head(dict) >> \o DictPut(Tail(dict), k, v)

\* json.loads of an object text: members are inserted left to right, a
\* repeated key overwrites the earlier value.
RECURSIVE JsonLoadsFrom(_, _)
JsonLoadsFrom(dict, members) ==
    IF members = <<>> THEN dict
    ELSE JsonLoadsFrom(DictPut(dict, Head(members)[1], Head(members)[2]), Tail(members))

JsonLoads(members) == JsonLoadsFrom(<<>>, members)

\* json.dumps of a dict: one member per key, in insertion order.
JsonDumps(dict) == JsonText(dict)

DictKeys(dict) == {dict[i][1] : i \in 1..Len(dict)}

DictGet(dict, k) == (CHOOSE i \in 1..Len(dict) : dict[i][1] = k)

\* Python == on two dicts: same keys, same values, order is irrelevant.
DeepEqual(d1, d2) ==
    /\ DictKeys(d1) = DictKeys(d2)
    /\ \A k \in DictKeys(d1) : d1[DictGet(d1, k)][2] = d2[DictGet(d2, k)][2]

----------------------------------------------------------------------------
(* Loss engine (loss_function.py).                                         *)

PENALTY == [pen |-> TRUE, num |-> 0, den |-> 1]

RECURSIVE Gcd(_, _)
Gcd(a, b) == IF b = 0 THEN a ELSE Gcd(b, a % b)

Ratio(n, d) == [pen |-> FALSE, num |-> n \div Gcd(n, d), den |-> d \div Gcd(n, d)]

\* The target case directory of the run: a function from the step keys
\* that have a file step_<n>.csv to what the file holds, "field" (a
\* displacement table) or "unreadable".
TARGET_FILES == [k \in {0} |-> "field"]

\* STEP_WEIGHTS = None: a weight table is a function from step keys to
\* weights, None and {} being the table without entries.
STEP_WEIGHTS == <<>>

\* Outcomes of _calculate_single_step_loss that are not a loss: the
\* ValueError (or any other exception) it raises, and the value NaN.
RAISES == -1

NAN == -2

\* _calculate_single_step_loss: the RMSE in tenths of a payload against the
\* target field; RAISES when the target file or the payload cannot be read
\* as a displacement table, NAN when the table holds no number.
_calculate_single_step_loss(target_field, sim_field_csv_string) ==
    CASE target_field # "field" -> RAISES
      [] sim_field_csv_string = "csvA" -> 2
      [] sim_field_csv_string = "csvB" -> 8
      [] sim_field_csv_string = "nan" -> NAN
      [] OTHER -> RAISES

\* A loop that gives every step the weight 1.
StepWeight_ignore_table(step_weights, step_key) == 1

\* step_weights.get(step_key, 1.0) if step_weights else 1.0
StepWeight(step_weights, step_key) ==
    IF step_key \in DOMAIN step_weights THEN step_weights[step_key] ELSE 1

\* A loop without the check of the empty payload (lines 98-101).
ComparedSteps_keep_empty(target_data_dir, dict) ==
    {k \in DictKeys(dict) : k \in DOMAIN target_data_dir}

\* The steps of the result that reach _calculate_single_step_loss: target
\* file present and payload not empty.
ComparedSteps(target_data_dir, dict) ==
    {k \in DictKeys(dict) : k \in DOMAIN target_data_dir /\ dict[DictGet(dict, k)][2] # ""}

\* A loop that skips a step whose comparison raises, as it skips NaN.
StepLoss_skip_failure(target_data_dir, dict, k) ==
    IF _calculate_single_step_loss(target_data_dir[k], dict[DictGet(dict, k)][2]) = RAISES
    THEN NAN
    ELSE _calculate_single_step_loss(target_data_dir[k], dict[DictGet(dict, k)][2])

\* The loss of step k of the result.
StepLoss(target_data_dir, dict, k) ==
    _calculate_single_step_loss(target_data_dir[k], dict[DictGet(dict, k)][2])

\* total_loss (weighted = TRUE) and total_weight (weighted = FALSE) after
\* the loop over the steps S; a step whose loss is NaN adds nothing.
RECURSIVE SumOver(_, _, _, _, _)
SumOver(S, target_data_dir, dict, step_weights, weighted) ==
    IF S = {} THEN 0
    ELSE LET k == CHOOSE x \in S : TRUE
             l == StepLoss(target_data_dir, dict, k)
             w == StepWeight(step_weights, k)
         IN (IF l = NAN THEN 0 ELSE IF weighted THEN l * w ELSE w)
            + SumOver(S \ {k}, target_data_dir, dict, step_weights, weighted)

\* A loss that is 0 instead of the penalty when nothing was compared.
calculate_multi_step_loss_zero_when_empty(target_data_dir, sim_steps_json_string, step_weights) ==
    IF sim_steps_json_string.none \/ ~sim_steps_json_string.valid
          \/ ~sim_steps_json_string.object
    THEN PENALTY
    ELSE LET sim_steps_data == JsonLoads(sim_steps_json_string.members)
             compared == ComparedSteps(target_data_dir, sim_steps_data)
             total_loss == SumOver(compared, target_data_dir, sim_steps_data, step_weights, TRUE)
             total_weight == SumOver(compared, target_data_dir, sim_steps_data, step_weights, FALSE)
         IN IF \E k \in compared : StepLoss(target_data_dir, sim_steps_data, k) = RAISES
            THEN PENALTY
            ELSE IF total_weight = 0 THEN Ratio(0, 1)
            ELSE Ratio(total_loss, total_weight)

calculate_multi_step_loss(target_data_dir, sim_steps_json_string, step_weights) ==
    IF sim_steps_json_string.none \/ ~sim_steps_json_string.valid
          \/ ~sim_steps_json_string.object
    THEN PENALTY
    ELSE LET sim_steps_data == JsonLoads(sim_steps_json_string.members)
             compared == ComparedSteps(target_data_dir, sim_steps_data)
             total_loss == SumOver(compared, target_data_dir, sim_steps_data, step_weights, TRUE)
             total_weight == SumOver(compared, target_data_dir, sim_steps_data, step_weights, FALSE)
         IN IF \E k \in compared : StepLoss(target_data_dir, sim_steps_data, k) = RAISES
            THEN PENALTY
            ELSE IF total_weight = 0 THEN PENALTY
            ELSE Ratio(total_loss, total_weight)

----------------------------------------------------------------------------
(* Knowledge base files.                                                   *)

Absent == [state |-> "absent", parameters |-> [key_emod000 |-> 0], simulation_data |-> <<>>]

\* A file that exists but does not hold a complete JSON document: just
\* opened for writing, or written in part.
Partial == [state |-> "partial", parameters |-> [key_emod000 |-> 0], simulation_data |-> <<>>]

Complete(params_dict, data) ==
    [state |-> "complete", parameters |-> params_dict, simulation_data |-> data]

\* load_from_knowledge_base whose os.path.exists test never succeeds (the
\* path is built without the .json suffix): every lookup is a miss.
load_from_knowledge_base_wrong_path(files, params_dict) ==
    [outcome |-> "miss", text |-> None]

\* load_from_knowledge_base: "miss" (None), "hit" with the text of
\* simulation_data, or "raise" when json.load fails on the file.
load_from_knowledge_base(files, params_dict) ==
    LET entry == files[get_params_hash(params_dict)]
    IN IF entry.state = "absent" THEN [outcome |-> "miss", text |-> None]
       ELSE IF entry.state = "partial" THEN [outcome |-> "raise", text |-> None]
       ELSE [outcome |-> "hit", text |-> JsonDumps(entry.simulation_data)]

\* save_to_knowledge_base, first half: open(filepath, 'w') creates or
\* truncates the file.
OpenForWrite(files, params_dict) ==
    [files EXCEPT ![get_params_hash(params_dict)] = Partial]

\* save_to_knowledge_base that keeps only the steps whose payload is not
\* empty.
WriteDocument_drop_empty(files, params_dict, sim_steps_json_string) ==
    [files EXCEPT ![get_params_hash(params_dict)] =
        Complete(params_dict,
                 SelectSeq(JsonLoads(sim_steps_json_string.members), LAMBDA m : m[2] # ""))]

\* save_to_knowledge_base, second half: json.dump has written the document
\* and the file is closed.
WriteDocument(files, params_dict, sim_steps_json_string) ==
    [files EXCEPT ![get_params_hash(params_dict)] =
        Complete(params_dict, JsonLoads(sim_steps_json_string.members))]

----------------------------------------------------------------------------
(* Worker responses.                                                       *)

\* What the bytes received from a server can be: raw_response without a
\* brace pair (brace = FALSE), with a brace pair whose content is not JSON
\* (valid = FALSE), or a JSON object text.
RawResponse(brace, valid, members) == [brace |-> brace, valid |-> valid, members |-> members]

RawResponses ==
    { RawResponse(FALSE, FALSE, <<>>),
      RawResponse(TRUE, FALSE, <<>>),
      RawResponse(TRUE, TRUE, << <<ERROR_KEY, "msg">> >>),
      RawResponse(TRUE, TRUE, << <<0, "csvA">> >>),
      RawResponse(TRUE, TRUE, << <<0, "csvB">> >>) }

\* What a received response is: "malformed" when no JSON object can be read
\* from it, "error" when the object has the key error, else "result".
ResponseKind(raw) ==
    IF ~raw.brace \/ ~raw.valid THEN "malformed"
    ELSE IF \E i \in 1..Len(raw.members) : raw.members[i][1] = ERROR_KEY THEN "error"
    ELSE "result"

\* A worker that keeps and stores a response that has the key error.
ParseResponse_store_error(raw) ==
    IF ~raw.brace THEN [text |-> None, store |-> FALSE]
    ELSE IF ~raw.valid THEN [text |-> None, store |-> FALSE]
    ELSE [text |-> JsonText(raw.members), store |-> TRUE]

\* A worker that stores what stands between the braces although it is
\* not JSON.
ParseResponse_store_malformed(raw) ==
    IF ~raw.brace THEN [text |-> None, store |-> FALSE]
    ELSE IF ERROR_KEY \in DictKeys(JsonLoads(raw.members)) THEN [text |-> None, store |-> FALSE]
    ELSE [text |-> JsonText(raw.members), store |-> TRUE]

\* Lines 108-123 of run_simulation_worker: the text kept in
\* sim_steps_json_string after parsing, None on any failure, and whether
\* the result is stored.
ParseResponse(raw) ==
    IF ~raw.brace THEN [text |-> None, store |-> FALSE]
    ELSE IF ~raw.valid THEN [text |-> None, store |-> FALSE]
    ELSE IF ERROR_KEY \in DictKeys(JsonLoads(raw.members)) THEN [text |-> None, store |-> FALSE]
    ELSE [text |-> JsonText(raw.members), store |-> TRUE]

----------------------------------------------------------------------------
(* State of one optimisation run (one target case).                        *)

VARIABLES
    N_CALLS,                \* configured call budget
    N_INITIAL_POINTS,       \* configured initial-exploration count
    num_workers,            \* len(SERVER_LIST), the width of the thread pool
    kb,                     \* the files of KNOWLEDGE_BASE_DIR, by hash
    pc,                     \* position of the main thread
    total_jobs_dispatched,  \* the counter of the dispatch loop
    futures,                \* job ids of the futures still in the dict
    jobs,                   \* every job id: its arguments and its progress
    told,                   \* optimizer observations, by job id (0 = warm start)
    asked,                  \* number of points the optimizer was asked for
    failed,                 \* endpoints on which a job had a network error
    rt,                     \* last store and lookup made directly on the knowledge base
    pfc_server,             \* one PFC server: its loop, its listen queue, its connections
    call                    \* one call of a function taken alone: its input and its output

vars == <<N_CALLS, N_INITIAL_POINTS, num_workers, kb, pc, total_jobs_dispatched,
          futures, jobs, told, asked, failed, rt, pfc_server, call>>

config == <<N_CALLS, N_INITIAL_POINTS, num_workers>>

\* Largest job id a run can use.
MaxJobs == IF MaxCalls > MaxInitial
           THEN (IF MaxCalls > MaxServers THEN MaxCalls ELSE MaxServers)
           ELSE (IF MaxInitial > MaxServers THEN MaxInitial ELSE MaxServers)

JobIds == 1..MaxJobs

\* raised: the task ended with an exception; connected: the task opened a
\* socket; hit: the cache check returned a stored result; raced: another
\* task had the same cache file open for writing while this one wrote it;
\* resp: what the task received from its server.
NoJob == [phase |-> "unsubmitted", point |-> 0, server |-> 0, sim |-> None,
          loss |-> PENALTY, raised |-> FALSE, connected |-> FALSE, hit |-> FALSE,
          raced |-> FALSE, resp |-> "none"]

\* No store or lookup made yet.
NoRoundTrip == [stage |-> "idle", p |-> 0, r |-> None, q |-> 0,
                out |-> [outcome |-> "miss", text |-> None]]

\* A server that has not been started, and no function call made.
NoConn == [open |-> FALSE, payload |-> <<>>, data |-> <<>>]

NoServer == [pc |-> "off", backlog |-> <<>>, conn |-> NoConn, log |-> <<>>]

NoCall == [stage |-> "none"]

\* executor.submit(run_simulation_worker, point, server, target_case_dir, job_id)
Submitted(point, server) == [NoJob EXCEPT !.phase = "queued", !.point = point, !.server = server]

\* Files a previous run can have left: a result, or a file cut short.
InitialEntries(h) ==
    { Absent, Partial,
      Complete([key_emod000 |-> h[2]], JsonLoads(<< <<0, "csvA">> >>)) }

Init ==
    /\ N_CALLS \in 1..MaxCalls
    /\ N_INITIAL_POINTS \in 1..MaxInitial
    /\ num_workers \in 1..MaxServers
    /\ kb \in {f \in [Hashes -> UNION {InitialEntries(h) : h \in Hashes}] :
                 \A h \in Hashes : f[h] \in InitialEntries(h)}
    /\ pc = "warm_start"
    /\ total_jobs_dispatched = 0
    /\ futures = {}
    /\ jobs = [j \in JobIds |-> NoJob]
    /\ told = [j \in {0} \cup JobIds |-> <<>>]
    /\ asked = 0
    /\ failed = {}
    /\ rt = NoRoundTrip
    /\ pfc_server = NoServer
    /\ call = NoCall

----------------------------------------------------------------------------
(* Main thread.                                                            *)

\* warm_start_optimizer: the (x, y) of every file that can be read, has
\* the parameters of the search space (float(None) raises and the file is
\* skipped) and whose loss against the current targets is below 1e9.  The
\* variant keeps the files whose loss is the penalty.
PriorHashes_keep_penalty(files) ==
    {h \in Hashes :
        /\ files[h].state = "complete"
        /\ "key_emod000" \in DOMAIN files[h].parameters}

PriorHashes(files) ==
    {h \in Hashes :
        /\ files[h].state = "complete"
        /\ "key_emod000" \in DOMAIN files[h].parameters
        /\ ~calculate_multi_step_loss(TARGET_FILES, JsonDumps(files[h].simulation_data), STEP_WEIGHTS).pen}

RECURSIVE PriorsOf(_, _)
PriorsOf(files, S) ==
    IF S = {} THEN <<>>
    ELSE LET h == CHOOSE x \in S : TRUE
         IN << <<FloatOfCanon(files[h].parameters),
                 calculate_multi_step_loss(TARGET_FILES, JsonDumps(files[h].simulation_data), STEP_WEIGHTS)>> >>
            \o PriorsOf(files, S \ {h})

warm_start_optimizer(files) == PriorsOf(files, PriorHashes(files))

\* Lines 171-182: the optimizer is created and told the prior points.
WarmStart ==
    /\ pc = "warm_start"
    /\ told' = [told EXCEPT ![0] = warm_start_optimizer(kb)]
    /\ pc' = "initial_batch"
    /\ UNCHANGED <<config, rt, pfc_server, call, kb, total_jobs_dispatched, futures, jobs, asked, failed>>

x_prior == told[0]

\* An initial batch that ignores the prior points.
n_initial_configured == N_INITIAL_POINTS

\* Line 187.
n_initial == IF x_prior = <<>> THEN N_INITIAL_POINTS ELSE num_workers

\* A dispatcher that sends every job to the first endpoint.
server_for_next_job_first(dispatched) == 0

\* SERVER_LIST[i % num_workers] of line 191 and
\* SERVER_LIST[total_jobs_dispatched % num_workers] of line 207, as an
\* index of SERVER_LIST.
server_for_next_job(dispatched) == dispatched % num_workers

\* Lines 187-195: ask for the initial points and submit one job per point.
InitialBatch ==
    /\ pc = "initial_batch"
    /\ \E initial_points \in [1..n_initial -> Points] :
          jobs' = [j \in JobIds |->
                     IF j <= n_initial
                     THEN Submitted(initial_points[j], server_for_next_job(j - 1))
                     ELSE jobs[j]]
    /\ asked' = asked + n_initial
    /\ futures' = 1..n_initial
    /\ total_jobs_dispatched' = n_initial
    /\ pc' = "loop"
    /\ UNCHANGED <<config, rt, pfc_server, call, kb, told, failed>>

\* A loop that tells the point of the first job with every loss.
optimizer_tell_first_point(observations, j, x_result, y_result) ==
    [observations EXCEPT ![j] = Append(@, <<jobs[1].point, y_result>>)]

\* An optimizer that records every observation twice.
optimizer_tell_twice(observations, j, x_result, y_result) ==
    [observations EXCEPT ![j] = Append(Append(@, <<x_result, y_result>>), <<x_result, y_result>>)]

\* optimizer.tell([x_result], [y_result]) for the result of job j.
optimizer_tell(observations, j, x_result, y_result) ==
    [observations EXCEPT ![j] = Append(@, <<x_result, y_result>>)]

\* as_completed yields a future when its task has returned or raised; the
\* variant yields it as soon as the task has started.
Completed_when_started(j) == jobs[j].phase \in {"network", "saving", "done"}

Completed(j) == jobs[j].phase = "done"

\* Lines 197-214, one iteration of the while loop: as_completed yields a
\* finished future, its result is told and one new job is submitted.
\* future.result() re-raises the exception of a worker that raised.
HandleCompletion(j) ==
    /\ pc = "loop"
    /\ total_jobs_dispatched < N_CALLS
    /\ j \in futures
    /\ Completed(j)
    /\ IF jobs[j].raised
       THEN /\ pc' = "crashed"
            /\ UNCHANGED <<config, rt, pfc_server, call, kb, total_jobs_dispatched, futures, jobs, told, asked, failed>>
       ELSE /\ told' = optimizer_tell(told, j, jobs[j].point, jobs[j].loss)
            /\ \E next_point \in Points :
                  jobs' = [jobs EXCEPT ![total_jobs_dispatched + 1] =
                             Submitted(next_point, server_for_next_job(total_jobs_dispatched))]
            /\ asked' = asked + 1
            /\ total_jobs_dispatched' = total_jobs_dispatched + 1
            /\ futures' = (futures \ {j}) \cup {total_jobs_dispatched + 1}
            /\ UNCHANGED <<config, rt, pfc_server, call, kb, pc, failed>>

\* Lines 197 and 216: the while condition is false, the with block waits
\* for the tasks of the pool and the result of the optimizer is read.
GetResult ==
    /\ pc = "loop"
    /\ total_jobs_dispatched >= N_CALLS
    /\ \A j \in JobIds : jobs[j].phase \in {"unsubmitted", "done"}
    /\ pc' = "finished"
    /\ UNCHANGED <<config, rt, pfc_server, call, kb, total_jobs_dispatched, futures, jobs, told, asked, failed>>

----------------------------------------------------------------------------
(* Worker tasks (run_simulation_worker).                                   *)

Running == {j \in JobIds : jobs[j].phase \in {"network", "saving"}}

\* A pool that starts a thread for every submitted task.
PoolHasIdleThread_always == Cardinality(Running) <= MaxJobs

\* ThreadPoolExecutor(max_workers=num_workers): a queued task starts when
\* fewer than num_workers tasks are running.
PoolHasIdleThread == Cardinality(Running) < num_workers

Queued == {j \in JobIds : jobs[j].phase = "queued"}

\* Lines 63-90: a thread of the pool takes the oldest queued task and
\* checks the knowledge base.
CacheCheck(j) ==
    /\ j \in Queued
    /\ \A i \in Queued : j <= i
    /\ PoolHasIdleThread
    /\ LET lookup == load_from_knowledge_base(kb, params_dict_for_kb(jobs[j].point))
       IN jobs' = [jobs EXCEPT ![j] =
             CASE lookup.outcome = "raise" ->
                    [@ EXCEPT !.phase = "done", !.raised = TRUE]
               [] lookup.outcome = "hit" ->
                    [@ EXCEPT !.phase = "done", !.hit = TRUE, !.sim = lookup.text,
                              !.loss = calculate_multi_step_loss(TARGET_FILES, lookup.text, STEP_WEIGHTS)]
               [] OTHER ->
                    [@ EXCEPT !.phase = "network", !.connected = TRUE]]
    /\ UNCHANGED <<config, rt, pfc_server, call, kb, pc, total_jobs_dispatched, futures, told, asked, failed>>

\* Lines 91-101 and 126-133: connect, send or receive fails (refused,
\* reset, timeout); the job ends with the penalty loss.
NetworkError(j) ==
    /\ jobs[j].phase = "network"
    /\ jobs' = [jobs EXCEPT ![j] = [@ EXCEPT !.phase = "done", !.sim = None, !.loss = PENALTY]]
    /\ failed' = failed \cup {jobs[j].server}
    /\ UNCHANGED <<config, rt, pfc_server, call, kb, pc, total_jobs_dispatched, futures, told, asked>>

\* The other tasks that are writing the cache file of job j.
SameFileWriters(j) ==
    {i \in JobIds \ {j} :
        /\ jobs[i].phase = "saving"
        /\ get_params_hash(params_dict_for_kb(jobs[i].point))
             = get_params_hash(params_dict_for_kb(jobs[j].point))}

\* Lines 97-123: the response has arrived and is parsed; a result without
\* error is stored, the file being opened for writing.  Two tasks that
\* write the same file at the same time race on its content.
ReceiveResponse(j) ==
    /\ jobs[j].phase = "network"
    /\ \E raw \in RawResponses :
          LET parsed == ParseResponse(raw)
          IN IF parsed.store
             THEN /\ jobs' = [i \in JobIds |->
                              IF i = j
                              THEN [jobs[i] EXCEPT !.phase = "saving", !.sim = parsed.text,
                                                   !.raced = SameFileWriters(j) # {},
                                                   !.resp = ResponseKind(raw)]
                              ELSE IF i \in SameFileWriters(j)
                              THEN [jobs[i] EXCEPT !.raced = TRUE]
                              ELSE jobs[i]]
                  /\ kb' = OpenForWrite(kb, params_dict_for_kb(jobs[j].point))
             ELSE /\ jobs' = [jobs EXCEPT ![j] =
                                [@ EXCEPT !.phase = "done", !.sim = None, !.loss = PENALTY,
                                          !.resp = ResponseKind(raw)]]
                  /\ kb' = kb
    /\ UNCHANGED <<config, rt, pfc_server, call, pc, total_jobs_dispatched, futures, told, asked, failed>>

\* Lines 35-37 and 130-144: the document is written and the result scored.
\* After unsynchronised writes of two tasks to the same file, the file
\* holds this task's document or a mix of both that is not a document.
FinishSave(j) ==
    /\ jobs[j].phase = "saving"
    /\ \/ kb' = WriteDocument(kb, params_dict_for_kb(jobs[j].point), jobs[j].sim)
       \/ /\ jobs[j].raced
          /\ kb' = OpenForWrite(kb, params_dict_for_kb(jobs[j].point))
    /\ jobs' = [jobs EXCEPT ![j] =
                  [@ EXCEPT !.phase = "done",
                            !.loss = calculate_multi_step_loss(TARGET_FILES, jobs[j].sim, STEP_WEIGHTS)]]
    /\ UNCHANGED <<config, rt, pfc_server, call, pc, total_jobs_dispatched, futures, told, asked, failed>>

\* A worker that tells the optimizer itself when its store fails.
StoreFails_tells(j) ==
    /\ jobs[j].phase = "saving"
    /\ jobs' = [jobs EXCEPT ![j] = [@ EXCEPT !.phase = "done", !.sim = None, !.loss = PENALTY]]
    /\ told' = optimizer_tell(told, j, jobs[j].point, PENALTY)
    /\ UNCHANGED <<config, rt, pfc_server, call, kb, pc, total_jobs_dispatched, futures, asked, failed>>

\* Lines 35-36, 118 and 126-133: writing the document raises (the disk is
\* full, the file cannot be written).  The exception is not a
\* JSONDecodeError: it leaves the inner try and the handler of line 126
\* drops the received result.
StoreFails(j) ==
    /\ jobs[j].phase = "saving"
    /\ jobs' = [jobs EXCEPT ![j] = [@ EXCEPT !.phase = "done", !.sim = None, !.loss = PENALTY]]
    /\ UNCHANGED <<config, rt, pfc_server, call, kb, pc, total_jobs_dispatched, futures, told, asked, failed>>

Next ==
    \/ WarmStart
    \/ InitialBatch
    \/ \E j \in JobIds : HandleCompletion(j)
    \/ GetResult
    \/ \E j \in JobIds : CacheCheck(j)
    \/ \E j \in JobIds : NetworkError(j)
    \/ \E j \in JobIds : ReceiveResponse(j)
    \/ \E j \in JobIds : FinishSave(j)
    \/ \E j \in JobIds : StoreFails(j)

Spec == Init /\ [][Next]_vars

TypeOK ==
    /\ pc \in {"warm_start", "initial_batch", "loop", "crashed", "finished"}
    /\ futures \subseteq JobIds
    /\ failed \subseteq 0..(num_workers - 1)

----------------------------------------------------------------------------
(* The knowledge base taken alone: stores and lookups of arbitrary         *)
(* parameters and results, one call at a time.                             *)

MaxMembers == 2        \* a result text has at most MaxMembers members

StepKeys == {0, 1}

Payloads == {"", "csvA", "csvB"}

\* Every JSON object text of step keys to payloads, duplicate keys included.
ResultTexts ==
    {JsonText(m) : m \in UNION {[1..n -> StepKeys \X Payloads] : n \in 0..MaxMembers}}

\* save_to_knowledge_base run from its first line to its last.
save_to_knowledge_base(files, params_dict, sim_steps_json_string) ==
    WriteDocument(OpenForWrite(files, params_dict), params_dict, sim_steps_json_string)

InitKB ==
    /\ N_CALLS = 1
    /\ N_INITIAL_POINTS = 1
    /\ num_workers = 1
    /\ kb \in {f \in [Hashes -> UNION {InitialEntries(h) : h \in Hashes}] :
                 \A h \in Hashes : f[h] \in InitialEntries(h)}
    /\ pc = "warm_start"
    /\ total_jobs_dispatched = 0
    /\ futures = {}
    /\ jobs = [j \in JobIds |-> NoJob]
    /\ told = [j \in {0} \cup JobIds |-> <<>>]
    /\ asked = 0
    /\ failed = {}
    /\ rt = NoRoundTrip
    /\ pfc_server = NoServer
    /\ call = NoCall

KBStore(p, r) ==
    /\ rt.stage = "idle"
    /\ kb' = save_to_knowledge_base(kb, params_dict_for_kb(p), r)
    /\ rt' = [NoRoundTrip EXCEPT !.stage = "stored", !.p = p, !.r = r]
    /\ UNCHANGED <<config, pfc_server, call, pc, total_jobs_dispatched, futures, jobs, told, asked, failed>>

KBLookup(q) ==
    /\ rt.stage = "stored"
    /\ rt' = [rt EXCEPT !.stage = "loaded", !.q = q,
                        !.out = load_from_knowledge_base(kb, params_dict_for_kb(q))]
    /\ UNCHANGED <<config, pfc_server, call, kb, pc, total_jobs_dispatched, futures, jobs, told, asked, failed>>

NextKB ==
    \/ \E p \in Points, r \in ResultTexts : KBStore(p, r)
    \/ \E q \in Points : KBLookup(q)

SpecKB == InitKB /\ [][NextKB]_vars

----------------------------------------------------------------------------
(* Properties.                                                             *)

HashOf(j) == get_params_hash(params_dict_for_kb(jobs[j].point))

\* The step in which job j makes its cache check.
ChecksCache(j) == jobs[j].phase = "queued" /\ jobs'[j].phase # "queued"

\* C1: at most one executing job holds a given server endpoint at a time:
\* no two worker tasks are in their network phase on the same entry of
\* SERVER_LIST.
OneJobPerEndpoint ==
    \A i, j \in JobIds :
        (i # j /\ jobs[i].phase = "network" /\ jobs[j].phase = "network")
            => jobs[i].server # jobs[j].server

\* C2: the number of jobs dispatched never exceeds the call budget N_CALLS.
BudgetNeverExceeded == total_jobs_dispatched <= N_CALLS

\* C3: when the run reads the optimizer's result, every dispatched job has
\* had its (point, loss) told exactly once.
EveryJobToldOnce ==
    pc = "finished" =>
        \A j \in JobIds : jobs[j].phase # "unsubmitted" => Len(told[j]) = 1

\* C4: a job that finds a cache entry for its canonical parameters at its
\* cache check opens no connection, then or later, and its loss is the
\* score of the stored simulation result.
CacheHitSkipsNetwork ==
    [][\A j \in JobIds :
          /\ (ChecksCache(j) /\ kb[HashOf(j)].state = "complete")
                => /\ jobs'[j].phase = "done"
                   /\ ~jobs'[j].connected
                   /\ ~jobs'[j].raised
                   /\ jobs'[j].loss = calculate_multi_step_loss(
                          TARGET_FILES, JsonText(kb[HashOf(j)].simulation_data), STEP_WEIGHTS)
          /\ jobs[j].phase = "done" => jobs'[j] = jobs[j]]_vars

\* A job was served from the entry that an earlier job of the run stored.
CacheHitSkipsNetworkWitness ==
    \E i, j \in JobIds :
        /\ i # j
        /\ jobs[i].phase = "done" /\ jobs[i].connected /\ ~jobs[i].sim.none
        /\ jobs[j].phase = "done" /\ jobs[j].hit /\ ~jobs[j].connected
        /\ ~jobs[j].loss.pen
        /\ HashOf(i) = HashOf(j)

\* C5: once a cache entry exists for a fingerprint, a store for that
\* fingerprint never replaces it with a different result.
StoreNeverReplaces ==
    [][\A j \in JobIds :
          (jobs[j].phase = "network" /\ jobs'[j].phase = "saving"
             /\ kb[HashOf(j)].state = "complete")
            => DeepEqual(kb[HashOf(j)].simulation_data, JsonLoads(jobs'[j].sim.members))]_vars

\* C6: a lookup that runs while another task stores the same fingerprint
\* sees the complete entry or no entry, and a store leaves a complete entry.
ReaderSeesWholeEntry ==
    [][\A j \in JobIds :
          /\ (ChecksCache(j) /\ SameFileWriters(j) # {}) => ~jobs'[j].raised
          /\ (jobs[j].phase = "saving" /\ jobs'[j].phase = "done")
                => kb'[HashOf(j)].state = "complete"]_vars

\* C7: a store of (p, r) directly followed by a lookup of the same
\* canonical parameters returns a text that decodes to a value deep-equal
\* to r.
CacheRoundTrip ==
    (rt.stage = "loaded"
       /\ get_params_hash(params_dict_for_kb(rt.q)) = get_params_hash(params_dict_for_kb(rt.p)))
      => /\ rt.out.outcome = "hit"
         /\ DeepEqual(JsonLoads(rt.out.text.members), JsonLoads(rt.r.members))

\* A result text with a repeated key was stored and looked up.
CacheRoundTripWitness ==
    /\ rt.stage = "loaded"
    /\ rt.out.outcome = "hit"
    /\ Len(rt.r.members) = 2
    /\ rt.r.members[1][1] = rt.r.members[2][1]
    /\ rt.r.members[1][2] # rt.r.members[2][2]

\* C8: a job that fails with a network error on endpoint e ends with the
\* penalty loss, and no later job is dispatched to e.
FailedEndpointRetired ==
    [][\A j \in JobIds :
          /\ (jobs[j].phase = "network" /\ jobs'[j].phase = "done" /\ failed' # failed)
                => jobs'[j].loss = PENALTY
          /\ (jobs[j].phase = "unsubmitted" /\ jobs'[j].phase = "queued")
                => jobs'[j].server \notin failed]_vars

AllDead == failed = 0..(num_workers - 1)

\* C9: once every endpoint has failed, the dispatch loop asks for no
\* further candidate and submits no further job.
AbortWhenAllDead ==
    [][AllDead => (asked' = asked /\ total_jobs_dispatched' = total_jobs_dispatched)]_vars

\* C10: a job whose cache lookup fails goes on as on a cache miss, and the
\* run does not crash.
CacheErrorIsMiss ==
    [][/\ \A j \in JobIds :
             (ChecksCache(j) /\ kb[HashOf(j)].state = "partial")
                => (jobs'[j].phase = "network" /\ ~jobs'[j].raised)
       /\ pc' # "crashed"]_vars

\* C11: a failure to store a result in the knowledge base changes nothing
\* else: the job that received the result is scored from that result.
StoreFailureKeepsResult ==
    [][\A j \in JobIds :
          (jobs[j].phase = "saving" /\ jobs'[j].phase = "done")
             => jobs'[j].loss
                  = calculate_multi_step_loss(TARGET_FILES, jobs[j].sim, STEP_WEIGHTS)]_vars

\* C12: a job whose response is malformed or carries the key error gets the
\* penalty loss without a call of the loss engine (it has no result text),
\* the knowledge base is not touched, and the endpoint keeps its place in
\* the rotation: every job goes to the endpoint of its position.
BadResponseIsPenalty ==
    [][\A j \in JobIds :
          /\ (jobs[j].phase = "network" /\ jobs'[j].resp \in {"malformed", "error"})
                => /\ jobs'[j].phase = "done"
                   /\ jobs'[j].loss = PENALTY
                   /\ jobs'[j].sim = None
                   /\ kb' = kb
          /\ jobs'[j].phase # "unsubmitted"
                => jobs'[j].server = (j - 1) % num_workers]_vars

\* A job got an error response from an endpoint, and a later job has been
\* sent to the same endpoint and has connected to it.
BadResponseIsPenaltyWitness ==
    \E j \in JobIds : \E k \in JobIds :
        /\ j < k
        /\ jobs[j].resp = "error"
        /\ told[j] # <<>>
        /\ jobs[k].server = jobs[j].server
        /\ jobs[k].resp = "result"
----------------------------------------------------------------------------
(* The loss engine taken alone: calculate_multi_step_loss called once with *)
(* an arbitrary target directory, result string and weight table.          *)

LossPayloads == {"", "csvA", "csvB", "nan", "bad"}

Weights == {0, 1, 3}

TargetDirs == UNION {[S -> {"field", "unreadable"}] : S \in SUBSET StepKeys}

WeightTables == UNION {[S -> Weights] : S \in SUBSET StepKeys}

LossTexts ==
    {NotJson, JsonNonObject}
       \cup {JsonText(m) : m \in UNION {[1..n -> StepKeys \X LossPayloads] : n \in 0..MaxMembers}}

\* The optimisation run is not started.
RunIdle ==
    /\ N_CALLS = 1
    /\ N_INITIAL_POINTS = 1
    /\ num_workers = 1
    /\ kb = [h \in Hashes |-> Absent]
    /\ pc = "warm_start"
    /\ total_jobs_dispatched = 0
    /\ futures = {}
    /\ jobs = [j \in JobIds |-> NoJob]
    /\ told = [j \in {0} \cup JobIds |-> <<>>]
    /\ asked = 0
    /\ failed = {}
    /\ rt = NoRoundTrip

run == <<kb, pc, total_jobs_dispatched, futures, jobs, told, asked, failed, rt>>

InitLoss ==
    /\ RunIdle
    /\ pfc_server = NoServer
    /\ call \in [stage : {"input"}, target_data_dir : TargetDirs,
                 sim_steps_json_string : LossTexts, step_weights : WeightTables,
                 out : {PENALTY}]

Score ==
    /\ call.stage = "input"
    /\ call' = [call EXCEPT !.stage = "scored",
                            !.out = calculate_multi_step_loss(
                                       call.target_data_dir, call.sim_steps_json_string,
                                       call.step_weights)]
    /\ UNCHANGED <<config, run, pfc_server>>

NextLoss == Score

SpecLoss == InitLoss /\ [][NextLoss]_vars

\* The decoded result of the call, and the payload of one of its steps.
CallDict == JsonLoads(call.sim_steps_json_string.members)

CallPayload(k) == CallDict[DictGet(CallDict, k)][2]

CallIsObject == call.sim_steps_json_string.valid /\ call.sim_steps_json_string.object

\* The steps of the call that have a target file and a payload, those
\* whose comparison fails, and those that yield a loss.
CallUsable == {k \in DictKeys(CallDict) : k \in DOMAIN call.target_data_dir /\ CallPayload(k) # ""}

CallFailing ==
    {k \in CallUsable :
        _calculate_single_step_loss(call.target_data_dir[k], CallPayload(k)) = RAISES}

CallCompared ==
    {k \in CallUsable :
        _calculate_single_step_loss(call.target_data_dir[k], CallPayload(k)) >= 0}

CallWeight(k) == IF k \in DOMAIN call.step_weights THEN call.step_weights[k] ELSE 1

RECURSIVE Sum(_, _)
Sum(S, f) == IF S = {} THEN 0
             ELSE LET k == CHOOSE x \in S : TRUE IN f[k] + Sum(S \ {k}, f)

CallWeightSum == Sum(CallCompared, [k \in CallCompared |-> CallWeight(k)])

CallLossSum ==
    Sum(CallCompared,
        [k \in CallCompared |->
            CallWeight(k) * _calculate_single_step_loss(call.target_data_dir[k], CallPayload(k))])

\* The result of the call without the steps that lack a target file or a
\* payload.
CallRestricted == JsonDumps(SelectSeq(CallDict, LAMBDA m : m[1] \in CallUsable))

\* C14: calculate_multi_step_loss returns a number for every input, and the
\* penalty for a string that is not JSON, for JSON that is not an object and
\* as soon as the comparison of one step fails, whatever the other steps.
LossNeverRaises ==
    call.stage = "scored"
       => /\ call.out.pen \in BOOLEAN /\ call.out.num \in Nat /\ call.out.den \in Nat \ {0}
          /\ ~CallIsObject => call.out = PENALTY
          /\ (CallIsObject /\ CallFailing # {}) => call.out = PENALTY

\* A result with one step that compares well and one that fails was scored.
LossNeverRaisesWitness ==
    /\ call.stage = "scored"
    /\ CallIsObject
    /\ CallFailing # {}
    /\ CallCompared # {}
    /\ \E k \in CallCompared : CallWeight(k) > 0

\* C15: the loss is the penalty whenever the total weight is zero: the
\* result is empty, no step has a target file, every step that has one has
\* an empty payload, or the steps compared all have weight zero.
ZeroWeightIsPenalty ==
    (call.stage = "scored" /\ CallIsObject /\ \A k \in CallCompared : CallWeight(k) = 0)
       => call.out = PENALTY

\* A result whose only step with a target file has an empty payload, next
\* to a step with a payload and no target file, was scored.
ZeroWeightIsPenaltyWitness ==
    /\ call.stage = "scored"
    /\ CallIsObject
    /\ CallFailing = {}
    /\ \E k \in DictKeys(CallDict) : k \in DOMAIN call.target_data_dir /\ CallPayload(k) = ""
    /\ \E k \in DictKeys(CallDict) : k \notin DOMAIN call.target_data_dir /\ CallPayload(k) = "csvA"

\* C16: steps without target file and steps with an empty payload add
\* nothing: the loss is the loss of the result restricted to the steps that
\* have both.
SkippedStepsAddNothing ==
    (call.stage = "scored" /\ CallIsObject)
       => call.out = calculate_multi_step_loss(call.target_data_dir, CallRestricted,
                                               call.step_weights)

\* A result with a compared step and an empty step that has a target file
\* was scored.
SkippedStepsAddNothingWitness ==
    /\ call.stage = "scored"
    /\ CallIsObject
    /\ ~call.out.pen
    /\ \E k \in DictKeys(CallDict) : k \in DOMAIN call.target_data_dir /\ CallPayload(k) = ""

\* C17 as stated: when at least one step is compared the loss is the
\* weighted average of the losses of the compared steps.
WeightedAverageAlways ==
    (call.stage = "scored" /\ CallIsObject /\ CallCompared # {})
       => /\ ~call.out.pen
          /\ call.out.num * CallWeightSum = call.out.den * CallLossSum

\* C17: when at least one step is compared, no step fails and the weights
\* of the compared steps are not all zero, the loss is the weighted average
\* of the losses of the compared steps, the weight of a step being its
\* entry in the table and 1 without entry or table.
WeightedAverage ==
    (call.stage = "scored" /\ CallIsObject /\ CallCompared # {} /\ CallFailing = {}
        /\ CallWeightSum # 0)
       => /\ ~call.out.pen
          /\ call.out.num * CallWeightSum = call.out.den * CallLossSum

\* Two steps with different losses and different weights, one from the
\* table and one without entry, were averaged.
WeightedAverageWitness ==
    /\ call.stage = "scored"
    /\ CallIsObject
    /\ CallFailing = {}
    /\ Cardinality(CallCompared) = 2
    /\ \E k \in CallCompared : k \in DOMAIN call.step_weights /\ call.step_weights[k] = 3
    /\ \E k \in CallCompared : k \notin DOMAIN call.step_weights
    /\ \E k \in CallCompared : CallPayload(k) = "csvA"
    /\ \E k \in CallCompared : CallPayload(k) = "csvB"
----------------------------------------------------------------------------
(* The extraction of the JSON object from the bytes of a response, taken   *)
(* alone.  A response is a string over Chars: the two braces, the comma,   *)
(* "s" for a member "step_0": "csvA", "e" for a member "error": "msg" and  *)
(* "x" for any other text.                                                 *)

MaxRawLen == 5         \* a response has at most MaxRawLen characters

Chars == {"{", "}", ",", "s", "e", "x"}

RawStrings == UNION {[1..n -> Chars] : n \in 0..MaxRawLen}

\* str.rfind(c) in place of str.find(c).
Find_from_the_right(str, c) ==
    IF \E i \in 1..Len(str) : str[i] = c
    THEN (CHOOSE i \in 1..Len(str) : str[i] = c /\ \A j \in (i + 1)..Len(str) : str[j] # c) - 1
    ELSE -1

\* str.find(c): the index from 0 of the first c, -1 without c.
Find(str, c) ==
    IF \E i \in 1..Len(str) : str[i] = c
    THEN (CHOOSE i \in 1..Len(str) : str[i] = c /\ \A j \in 1..(i - 1) : str[j] # c) - 1
    ELSE -1

\* str.rfind(c): the index from 0 of the last c, -1 without c.
RFind(str, c) ==
    IF \E i \in 1..Len(str) : str[i] = c
    THEN (CHOOSE i \in 1..Len(str) : str[i] = c /\ \A j \in (i + 1)..Len(str) : str[j] # c) - 1
    ELSE -1

\* str[start:stop] for indices that are not negative.
Slice(str, start, stop) == SubSeq(str, start + 1, IF stop > Len(str) THEN Len(str) ELSE stop)

\* json.loads succeeds on the string: an object of members separated by
\* commas.
IsJsonObject(str) ==
    /\ Len(str) >= 2
    /\ str[1] = "{"
    /\ str[Len(str)] = "}"
    /\ \/ Len(str) = 2
       \/ /\ Len(str) % 2 = 1
          /\ \A i \in 2..(Len(str) - 1) :
                IF i % 2 = 0 THEN str[i] \in {"s", "e"} ELSE str[i] = ","

\* The members of an object string, in the order of the string.
Member(c) == IF c = "e" THEN <<ERROR_KEY, "msg">> ELSE <<0, "csvA">>

MembersOf(str) == [i \in 1..((Len(str) - 1) \div 2) |-> Member(str[2 * i])]

\* Lines 109-112: the brace pair of the response and the object between
\* them.
Scan(raw_response) ==
    LET start == Find(raw_response, "{")
        end == RFind(raw_response, "}")
        sim_steps_json_string == Slice(raw_response, start, end + 1)
    IN IF start # -1 /\ end # -1
       THEN [brace |-> TRUE, valid |-> IsJsonObject(sim_steps_json_string),
             members |-> IF IsJsonObject(sim_steps_json_string)
                         THEN MembersOf(sim_steps_json_string) ELSE <<>>,
             loaded |-> sim_steps_json_string]
       ELSE [brace |-> FALSE, valid |-> FALSE, members |-> <<>>, loaded |-> <<>>]

InitParse ==
    /\ RunIdle
    /\ pfc_server = NoServer
    /\ call \in [stage : {"input"}, raw_response : RawStrings,
                 out : {[text |-> None, store |-> FALSE]}, loaded : {<<>>}]

\* Lines 108-123 on one response; loaded is the string given to json.loads.
Parse ==
    /\ call.stage = "input"
    /\ call' = [call EXCEPT !.stage = "parsed",
                            !.out = ParseResponse(Scan(call.raw_response)),
                            !.loaded = Scan(call.raw_response).loaded]
    /\ UNCHANGED <<config, run, pfc_server>>

NextParse == Parse

SpecParse == InitParse /\ [][NextParse]_vars

\* The positions of the braces of the response of the call, and the
\* substring from its first "{" to its last "}".
OpenBraces == {i \in 1..Len(call.raw_response) : call.raw_response[i] = "{"}

CloseBraces == {i \in 1..Len(call.raw_response) : call.raw_response[i] = "}"}

FirstOpen == CHOOSE i \in OpenBraces : \A j \in OpenBraces : i <= j

LastClose == CHOOSE i \in CloseBraces : \A j \in CloseBraces : j <= i

BracePair == OpenBraces # {} /\ CloseBraces # {} /\ FirstOpen <= LastClose

\* C13: the client parses exactly the substring from the first "{" to the
\* last "}", noise around it ignored; without one of the braces, with the
\* last "}" before the first "{" or with a substring that is not JSON the
\* outcome is a failure: no result text and nothing stored.
ParsesBraceSubstring ==
    call.stage = "parsed"
       => /\ BracePair => call.loaded = SubSeq(call.raw_response, FirstOpen, LastClose)
          /\ (~BracePair \/ ~IsJsonObject(SubSeq(call.raw_response, FirstOpen, LastClose)))
                => call.out = [text |-> None, store |-> FALSE]
          /\ call.out.text # None
                => /\ call.out.store
                   /\ call.out.text
                        = JsonText(MembersOf(SubSeq(call.raw_response, FirstOpen, LastClose)))

\* A result between leading and trailing noise was parsed and kept.
ParsesBraceSubstringWitness ==
    /\ call.stage = "parsed"
    /\ call.raw_response = <<"x", "{", "s", "}", "x">>
    /\ call.loaded = <<"{", "s", "}">>
    /\ call.out.text = JsonText(<< <<0, "csvA">> >>)
----------------------------------------------------------------------------
\* The dispatch loop has ended, by its condition or by an exception, and
\* the pool has no task left to run.
LoopEnded ==
    /\ pc \in {"finished", "crashed"}
    /\ \A j \in JobIds : jobs[j].phase \in {"unsubmitted", "done"}

\* C18: with an initial batch of 1 to N_CALLS jobs, the dispatch loop ends
\* with exactly N_CALLS jobs dispatched and no task executing.
LoopEndsAtBudget ==
    (LoopEnded /\ n_initial \in 1..N_CALLS)
       => /\ total_jobs_dispatched = N_CALLS
          /\ Running = {}

\* The same for the runs in which no task raises.
LoopEndsAtBudgetUnlessRaised ==
    (LoopEnded /\ pc = "finished" /\ n_initial \in 1..N_CALLS)
       => /\ total_jobs_dispatched = N_CALLS
          /\ Running = {}
----------------------------------------------------------------------------
(* One PFC server (start_server) and the clients that connect to it.  A    *)
(* request is a string of bytes: "{", "a" or "b" and "}" make a parameter  *)
(* object, "n" is JSON that is not an object, "x" is not JSON.             *)

MaxConnections == 3    \* connections made to the server in one behaviour

MaxSteps == 2          \* excavation steps of one simulation

ParamBodies == {"a", "b"}

\* What a client writes to its connection before it waits or closes:
\* nothing, bytes that are not JSON, JSON that is not an object, or a
\* parameter object.
Payloads_sent ==
    {<<>>, <<"x">>, <<"n">>} \cup {<<"{", p, "}">> : p \in ParamBodies}

\* A connection in the listen queue: the bytes the client sends and the
\* number of them that the first recv of the server returns (the transport
\* may deliver a payload in several pieces).
Requests ==
    {[payload |-> b, first |-> n] :
        b \in Payloads_sent, n \in 0..3} \ {r \in [payload : Payloads_sent, first : 0..3] :
                                              \/ r.first > Len(r.payload)
                                              \/ (r.first = 0 /\ r.payload # <<>>)}

\* json.loads(data.decode('utf-8')) on the server: "object" with the
\* parameters, "other" for JSON that is not an object, "raise".
ServerJsonLoads(data) ==
    IF Len(data) = 3 /\ data[1] = "{" /\ data[2] \in ParamBodies /\ data[3] = "}"
    THEN [outcome |-> "object", client_params |-> data[2]]
    ELSE IF data = <<"n">> THEN [outcome |-> "other", client_params |-> ""]
    ELSE [outcome |-> "raise", client_params |-> ""]

\* What a simulation can do: raise in one of its stages, or run its steps,
\* each step producing its data file ("csvA", the content) or not
\* ("absent").
StepFiles == UNION {[1..n -> {"csvA", "absent"}] : n \in 0..MaxSteps}

Simulations ==
    {[raised |-> TRUE, files |-> <<>>]} \cup {[raised |-> FALSE, files |-> f] : f \in StepFiles}

\* A collection that numbers the steps from 1.
run_excavation_and_collect_data_from_one(files) ==
    [i \in 1..Len(files) |-> <<i, IF files[i] = "absent" THEN "" ELSE files[i]>>]

\* run_excavation_and_collect_data: one entry step_<i> per step, the
\* content of its file or "" without file.
run_excavation_and_collect_data(files) ==
    [i \in 1..Len(files) |-> <<i - 1, IF files[i] = "absent" THEN "" ELSE files[i]>>]

\* _run_single_optimization_cycle, lines 207-227: the JSON text returned.
_run_single_optimization_cycle(sim) ==
    IF sim.raised
    THEN JsonDumps(<< <<ERROR_KEY, "Simulation failed with exception">> >>)
    ELSE LET all_steps_data == run_excavation_and_collect_data(sim.files)
         IN IF all_steps_data # <<>>
            THEN JsonDumps(all_steps_data)
            ELSE JsonDumps(<< <<ERROR_KEY, "No data was collected during simulation.">> >>)

InitServer ==
    /\ RunIdle
    /\ call = NoCall
    /\ pfc_server = [NoServer EXCEPT !.pc = "accept"]

\* Connections accepted so far or waiting.
Connections ==
    Len(pfc_server.backlog) + Len(pfc_server.log)
       + (IF pfc_server.conn.open THEN 1 ELSE 0)

\* A client connects to the listening socket.
ClientConnects(r) ==
    /\ pfc_server.pc \in {"accept", "cycle"}
    /\ Connections < MaxConnections
    /\ pfc_server' = [pfc_server EXCEPT !.backlog = Append(@, r)]
    /\ UNCHANGED <<config, run, call>>

\* The record of a connection that the server has closed.
Closed(payload, data, sim, responses) ==
    [payload |-> payload, data |-> data, sim |-> sim, responses |-> responses]

NoSimulation == [raised |-> FALSE, files |-> <<>>]

\* A server that accepts the next connection while a cycle runs.
ReadyToAccept_threaded == pfc_server.pc \in {"accept", "cycle"}

\* The loop is at server_socket.accept() of line 250: it comes back there
\* only after the with block of the last connection.
ReadyToAccept == pfc_server.pc = "accept"

\* Lines 250-258: accept, one recv, json.loads.  Without data the loop goes
\* on; an exception of json.loads, or of client_params.items() on JSON that
\* is not an object, leaves the while loop: the handler of line 268 and the
\* finally clause close the server socket.
AcceptAndReceive ==
    /\ ReadyToAccept
    /\ pfc_server.backlog # <<>>
    /\ LET r == Head(pfc_server.backlog)
           data == SubSeq(r.payload, 1, r.first)
           loaded == ServerJsonLoads(data)
       IN pfc_server' =
            IF data = <<>>
            THEN [pfc_server EXCEPT !.backlog = Tail(@),
                                    !.log = Append(@, Closed(r.payload, data, NoSimulation, <<>>))]
            ELSE IF loaded.outcome # "object"
            THEN [pfc_server EXCEPT !.pc = "down", !.backlog = <<>>,
                                    !.log = Append(@, Closed(r.payload, data, NoSimulation, <<>>))]
            ELSE [pfc_server EXCEPT !.pc = "cycle", !.backlog = Tail(@),
                                    !.conn = [open |-> TRUE, payload |-> r.payload, data |-> data]]
    /\ UNCHANGED <<config, run, call>>

\* Lines 262-265: the simulation cycle runs, its JSON text is sent and the
\* connection is closed.
RunCycle(sim) ==
    /\ pfc_server.pc = "cycle"
    /\ LET results_json_string == _run_single_optimization_cycle(sim)
       IN pfc_server' =
            [pfc_server EXCEPT !.pc = "accept", !.conn = NoConn,
                !.log = Append(@, Closed(pfc_server.conn.payload, pfc_server.conn.data,
                                         sim, <<results_json_string>>))]
    /\ UNCHANGED <<config, run, call>>

NextServer ==
    \/ \E r \in Requests : ClientConnects(r)
    \/ AcceptAndReceive
    \/ \E sim \in Simulations : RunCycle(sim)

SpecServer == InitServer /\ [][NextServer]_vars

\* C19: whatever the clients send, the server goes back to waiting for the
\* next connection: its loop never ends.
ServerNeverStops == pfc_server.pc # "down"

\* The payload is a parameter object.
IsParams(bytes) ==
    Len(bytes) = 3 /\ bytes[1] = "{" /\ bytes[2] \in ParamBodies /\ bytes[3] = "}"

\* The response is one JSON object that fits what the simulation did: the
\* steps when it ran and collected data, else the single key error.
FitsSimulation(sim, response) ==
    /\ response.valid /\ response.object
    /\ IF ~sim.raised /\ Len(sim.files) > 0
       THEN /\ response.members # <<>>
            /\ \A i \in 1..Len(response.members) : response.members[i][1] \in 0..(MaxSteps - 1)
       ELSE /\ Len(response.members) = 1
            /\ response.members[1][1] = ERROR_KEY

\* C20: every closed connection whose client sent a parameter object got
\* exactly one JSON object: the steps or the single key error.
ValidRequestGetsOneObject ==
    \A i \in 1..Len(pfc_server.log) :
        IsParams(pfc_server.log[i].payload)
           => /\ Len(pfc_server.log[i].responses) = 1
              /\ FitsSimulation(pfc_server.log[i].sim, pfc_server.log[i].responses[1])

\* The same for the connections whose parameter object reached the server
\* in its one recv.
WholeRequestGetsOneObject ==
    \A i \in 1..Len(pfc_server.log) :
        IsParams(pfc_server.log[i].data)
           => /\ Len(pfc_server.log[i].responses) = 1
              /\ FitsSimulation(pfc_server.log[i].sim, pfc_server.log[i].responses[1])
----------------------------------------------------------------------------
\* The jobs whose completion the dispatch loop has handled, and the jobs
\* submitted and not yet finished.
Handled == {j \in JobIds : j <= total_jobs_dispatched /\ j \notin futures}

InFlight == {j \in JobIds : jobs[j].phase \in {"queued", "network", "saving"}}

AfterBatch == pc \in {"loop", "finished", "crashed"}

\* C21: after the initial batch every handled completion has made one tell
\* of the job's (point, loss), one ask and one submission, none of them
\* made with the budget used up; the jobs submitted and not handled stay as
\* many as the initial batch.
OneTellAskSubmitPerCompletion ==
    AfterBatch
       => /\ \A j \in Handled : told[j] = << <<jobs[j].point, jobs[j].loss>> >>
          /\ \A j \in JobIds \ Handled : told[j] = <<>>
          /\ asked = n_initial + Cardinality(Handled)
          /\ total_jobs_dispatched = n_initial + Cardinality(Handled)
          /\ Handled # {} => total_jobs_dispatched <= N_CALLS
          /\ Cardinality(futures) = n_initial

\* Two completions were handled and the budget is used up.
OneTellAskSubmitPerCompletionWitness ==
    /\ pc = "loop"
    /\ Cardinality(Handled) = 2
    /\ total_jobs_dispatched = N_CALLS

\* C22: the jobs submitted and not yet finished are never more than the
\* configured endpoints.
WindowWithinPool == Cardinality(InFlight) <= num_workers

\* C23: the worker tasks that execute at the same time are never more than
\* the configured endpoints.
RunningWithinPool == Cardinality(Running) <= num_workers

\* Every thread of the pool is busy and a task of a larger initial batch
\* waits in the queue.
RunningWithinPoolWitness ==
    /\ Cardinality(Running) = num_workers
    /\ Queued # {}
    /\ n_initial > num_workers

\* C24: a step that tells, asks or reads the result of the optimizer is a
\* step of the dispatch thread: no submitted worker task moves in it.
OnlyDispatchThreadUsesOptimizer ==
    [][(told' # told \/ asked' # asked \/ (pc' = "finished" /\ pc # "finished"))
          => \A j \in JobIds : jobs[j].phase # "unsubmitted" => jobs'[j] = jobs[j]]_vars

\* The optimizer was told a result while a worker task was running.
OnlyDispatchThreadUsesOptimizerWitness ==
    /\ Running # {}
    /\ Handled # {}
    /\ \E j \in Handled : told[j] # <<>>

\* C27: a job whose completion the dispatch loop has handled has left the
\* with block of its socket: it has no open connection.
HandledJobHoldsNoEndpoint ==
    \A j \in JobIds :
        (j \in Handled \/ told[j] # <<>>) => jobs[j].phase \notin {"network", "saving"}

\* A job that had connected to its endpoint was handled.
HandledJobHoldsNoEndpointWitness ==
    \E j \in Handled : jobs[j].connected /\ told[j] # <<>>

\* C29: a step that creates or changes a cache file is the step of a job
\* that has received a JSON object without the key error, and a file
\* completed in it holds the parameters and the result of that job.
CacheWrittenOnlyFromResult ==
    [][kb' # kb
          => \E j \in JobIds :
                /\ jobs[j].phase \in {"network", "saving"}
                /\ jobs'[j] # jobs[j]
                /\ jobs'[j].resp = "result"
                /\ jobs'[j].sim.valid /\ jobs'[j].sim.object
                /\ ERROR_KEY \notin DictKeys(JsonLoads(jobs'[j].sim.members))
                /\ \A h \in Hashes : kb'[h] # kb[h] => h = HashOf(j)
                /\ kb'[HashOf(j)].state = "complete"
                      => kb'[HashOf(j)]
                           = Complete(params_dict_for_kb(jobs[j].point),
                                      JsonLoads(jobs'[j].sim.members))]_vars

\* A result that no earlier run had left was written by a job of the run.
CacheWrittenOnlyFromResultWitness ==
    \E j \in JobIds :
        /\ jobs[j].phase = "done"
        /\ jobs[j].resp = "result"
        /\ kb[HashOf(j)].state = "complete"
        /\ kb[HashOf(j)].simulation_data = JsonLoads(<< <<0, "csvB">> >>)
----------------------------------------------------------------------------
(* The start of a run taken alone: warm start and initial batch on every   *)
(* content a knowledge base directory can have.                            *)

\* Files that any earlier run or tool can have left under a name: the
\* files of InitialEntries, a result without steps, a result whose only
\* step has no target file, and a document without the parameter
\* key_emod000.
WarmEntries(h) ==
    InitialEntries(h)
       \cup { Complete([key_emod000 |-> h[2]], <<>>),
              Complete([key_emod000 |-> h[2]], JsonLoads(<< <<1, "csvB">> >>)),
              Complete([key_kratio |-> h[2]], JsonLoads(<< <<0, "csvA">> >>)) }

InitWarm ==
    /\ N_CALLS \in 1..MaxCalls
    /\ N_INITIAL_POINTS \in 1..MaxInitial
    /\ num_workers \in 1..MaxServers
    /\ kb \in {f \in [Hashes -> UNION {WarmEntries(h) : h \in Hashes}] :
                 \A h \in Hashes : f[h] \in WarmEntries(h)}
    /\ pc = "warm_start"
    /\ total_jobs_dispatched = 0
    /\ futures = {}
    /\ jobs = [j \in JobIds |-> NoJob]
    /\ told = [j \in {0} \cup JobIds |-> <<>>]
    /\ asked = 0
    /\ failed = {}
    /\ rt = NoRoundTrip
    /\ pfc_server = NoServer
    /\ call = NoCall

NextWarm ==
    \/ WarmStart
    \/ InitialBatch

SpecWarm == InitWarm /\ [][NextWarm]_vars

\* The files that warm start can use: readable, with the parameter of the
\* search space, and with a loss against the targets that is not the
\* penalty.
UsableEntries ==
    {h \in Hashes :
        /\ kb[h].state = "complete"
        /\ "key_emod000" \in DOMAIN kb[h].parameters
        /\ calculate_multi_step_loss(TARGET_FILES, JsonText(kb[h].simulation_data),
                                     STEP_WEIGHTS) # PENALTY}

Submitted_jobs == {j \in JobIds : jobs[j].phase # "unsubmitted"}

InitialBatchSize ==
    AfterBatch
       => LET size == IF told[0] # <<>> THEN num_workers ELSE N_INITIAL_POINTS
          IN /\ Submitted_jobs = 1..size
             /\ futures = 1..size
             /\ total_jobs_dispatched = size
             /\ asked = size

\* A warm-started run submitted one job per endpoint although
\* N_INITIAL_POINTS is larger.
InitialBatchSizeWitness ==
    /\ pc = "loop"
    /\ told[0] # <<>>
    /\ N_INITIAL_POINTS > num_workers
    /\ total_jobs_dispatched = num_workers
----------------------------------------------------------------------------
\* C28: for every accepted connection whose client sent a parameter
\* object, however the transport delivered it, the server decodes exactly
\* the parameters sent.
DecodesWhatWasSent ==
    \A i \in 1..Len(pfc_server.log) :
        IsParams(pfc_server.log[i].payload)
           => /\ ServerJsonLoads(pfc_server.log[i].data).outcome = "object"
              /\ ServerJsonLoads(pfc_server.log[i].data).client_params
                   = pfc_server.log[i].payload[2]

\* C30: the result of a simulation that ran n >= 1 steps decodes to the
\* keys step_0 ... step_(n-1), each with the content of the file of its
\* step, or "" when the step produced no file.
StepKeysAreContiguous ==
    \A i \in 1..Len(pfc_server.log) :
        LET e == pfc_server.log[i]
            n == Len(e.sim.files)
        IN (e.responses # <<>> /\ ~e.sim.raised /\ n >= 1)
              => LET result == JsonLoads(e.responses[1].members)
                 IN /\ e.responses[1].valid /\ e.responses[1].object
                    /\ Len(e.responses[1].members) = n
                    /\ DictKeys(result) = 0..(n - 1)
                    /\ \A k \in 0..(n - 1) :
                          result[DictGet(result, k)][2]
                             = IF e.sim.files[k + 1] = "absent" THEN ""
                               ELSE e.sim.files[k + 1]

\* A run of two steps, the first with its file and the second without, was
\* answered.
StepKeysAreContiguousWitness ==
    \E i \in 1..Len(pfc_server.log) :
        /\ pfc_server.log[i].responses # <<>>
        /\ pfc_server.log[i].sim = [raised |-> FALSE, files |-> <<"csvA", "absent">>]
----------------------------------------------------------------------------
\* C31: the jobs have the ids 1, 2, 3, ... in the order of dispatch and job
\* k goes to the endpoint (k - 1) mod n of SERVER_LIST, whatever endpoints
\* are busy or have failed.
StaticRoundRobin ==
    /\ Submitted_jobs = 1..total_jobs_dispatched
    /\ \A k \in Submitted_jobs : jobs[k].server = (k - 1) % num_workers

\* The loop sent a job to an endpoint on which an earlier job had failed
\* and on which another job is still connected.
StaticRoundRobinWitness ==
    \E i, j, k \in JobIds :
        /\ i # j /\ i < k /\ j < k
        /\ k > n_initial
        /\ jobs[k].phase # "unsubmitted"
        /\ jobs[i].server = jobs[k].server /\ jobs[j].server = jobs[k].server
        /\ jobs[i].phase = "network"
        /\ jobs[j].phase = "done" /\ jobs[j].server \in failed /\ jobs[j].connected
        /\ jobs[j].resp = "none" /\ ~jobs[j].hit /\ ~jobs[j].raised

\* C32: what the optimizer is told for a job is the point submitted with
\* that job and the loss of that job's own result: the score of the text it
\* read from the cache or received, the penalty when it has none.
ToldPairIsOwn ==
    \A j \in JobIds :
        told[j] # <<>>
           => /\ told[j][1][1] = jobs[j].point
              /\ told[j][1][2]
                   = IF jobs[j].sim = None THEN PENALTY
                     ELSE calculate_multi_step_loss(TARGET_FILES, jobs[j].sim, STEP_WEIGHTS)
              /\ \A i \in 1..Len(told[j]) : told[j][i] = told[j][1]

\* A job was told its loss while a job with another point, holding a
\* result with another loss, was still running.
ToldPairIsOwnWitness ==
    \E j, k \in JobIds :
        /\ j # k
        /\ told[k] # <<>>
        /\ ~jobs[k].loss.pen
        /\ jobs[j].phase = "saving"
        /\ jobs[j].point # jobs[k].point
        /\ calculate_multi_step_loss(TARGET_FILES, jobs[j].sim, STEP_WEIGHTS) # jobs[k].loss

\* C33: the server takes a connection from its listen queue only when no
\* connection is open, and a connection is open exactly while its cycle
\* runs: every connection taken earlier has been answered and closed.
OneRequestAtATime ==
    [][/\ (Len(pfc_server'.backlog) < Len(pfc_server.backlog) /\ pfc_server'.pc # "down")
             => /\ ~pfc_server.conn.open
                /\ pfc_server.pc = "accept"
       /\ pfc_server'.conn.open <=> pfc_server'.pc = "cycle"
       /\ (pfc_server.conn.open /\ pfc_server'.conn # pfc_server.conn)
             => /\ ~pfc_server'.conn.open
                /\ Len(pfc_server'.log) = Len(pfc_server.log) + 1
                /\ pfc_server'.log[Len(pfc_server'.log)].payload = pfc_server.conn.payload
                /\ Len(pfc_server'.log[Len(pfc_server'.log)].responses) = 1]_vars

\* A cycle runs while two clients wait in the listen queue.
OneRequestAtATimeWitness ==
    /\ pfc_server.pc = "cycle"
    /\ pfc_server.conn.open
    /\ Len(pfc_server.backlog) >= 2
====
